---- MODULE Spec2Model ----
(***************************************************************************)
(* pgident: quoting of PostgreSQL identifiers (PgIdent) and of dotted      *)
(* names (PgName).  A text value is a sequence of characters; a character  *)
(* is one representative of each class the code distinguishes.            *)
(***************************************************************************)
EXTENDS Naturals, Sequences, FiniteSets

VARIABLES op, arg, recv, ret, out, calls, taken

vars == <<op, arg, recv, ret, out, calls, taken>>

\* ------------------------------------------------------------------ bounds
\* longest short input string, in characters
MaxLen == 3
\* most components handed to a multi-component constructor
MaxParts == 4

\* ------------------------------------------------------------- characters
LowerA == "a"
\* U+00E9, a lower-case letter of two bytes in UTF-8
LowerEAcute == "e_acute"
UpperA == "A"
Digit1 == "1"
\* U+00B2 SUPERSCRIPT TWO: general category No, two bytes in UTF-8
Superscript2 == "sup2"
Underscore == "_"
Dollar == "$"
DQuote == "\""
Dot == "."
NUL == "NUL"

Alphabet ==
    {LowerA, LowerEAcute, UpperA, Digit1, Superscript2, Underscore, Dollar, DQuote, Dot, NUL}

\* char::is_lowercase: the Unicode Lowercase property
is_lowercase(c) == c \in {LowerA, LowerEAcute}

\* char::is_numeric: general categories Nd, Nl and No
is_numeric(c) == c \in {Digit1, Superscript2}

\* the ten characters 0-9
is_decimal_digit(c) == c = Digit1

\* char::len_utf8
len_utf8(c) == IF c \in {LowerEAcute, Superscript2} THEN 2 ELSE 1

\* str::len: the length in bytes
RECURSIVE len(_)
len(s) == IF s = <<>> THEN 0 ELSE len_utf8(Head(s)) + len(Tail(s))

\* str::contains('\x00')
contains_nul(s) == \E i \in 1..Len(s) : s[i] = NUL

\* NAMEDATALEN - 1
MaxIdentBytes == 63

\* ------------------------------------------------------------------ util.rs
all_rest_compatible(s) ==
    \A i \in 2..Len(s) :
        is_lowercase(s[i]) \/ is_numeric(s[i]) \/ s[i] = Underscore \/ s[i] = Dollar

is_ident_compatible(id) ==
    IF len(id) > MaxIdentBytes \/ len(id) = 0
    THEN FALSE
    ELSE IF ~is_lowercase(id[1]) /\ id[1] # Underscore
         THEN FALSE
         ELSE all_rest_compatible(id)

\* ----------------------------------------------------------------- results
Ok(v) == [tag |-> "Ok", val |-> v]
Err(e) == [tag |-> "Err", val |-> e]
Panic == [tag |-> "Panic", val |-> "panic"]
NullByteError == "NullByteError"
ZeroLengthError == "ZeroLengthError"

\* ----------------------------------------------------------------- ident.rs
\* enum PgIdent { Id(T), Quoted(String) }
PgIdent_Id(s) == [tag |-> "Id", val |-> s]
PgIdent_Quoted(s) == [tag |-> "Quoted", val |-> s]

\* variant: the text is stored as given, double-quotes left single
replace_quotes_none(s) == s

\* str::replace("\"", "\"\"")
RECURSIVE replace_quotes(_)
replace_quotes(s) ==
    IF s = <<>> THEN <<>>
    ELSE IF Head(s) = DQuote
         THEN <<DQuote, DQuote>> \o replace_quotes(Tail(s))
         ELSE <<Head(s)>> \o replace_quotes(Tail(s))

\* variant: no scan for NUL on the quoting path
PgIdent_new_unchecked(id) ==
    IF is_ident_compatible(id)
    THEN Ok(PgIdent_Id(id))
    ELSE Ok(PgIdent_Quoted(replace_quotes(id)))

PgIdent_new(id) ==
    IF is_ident_compatible(id)
    THEN Ok(PgIdent_Id(id))
    ELSE IF contains_nul(id)
         THEN Err(NullByteError)
         ELSE Ok(PgIdent_Quoted(replace_quotes(id)))

\* Display for PgIdent
fmt_PgIdent(ident) ==
    IF ident.tag = "Id"
    THEN ident.val
    ELSE <<DQuote>> \o ident.val \o <<DQuote>>

\* ------------------------------------------------------------------ name.rs
\* enum PgName { Id(PgIdent), IdPair(PgIdent, PgIdent), Namespaced(Vec<PgIdent>) }
PgName_Id(id) == [shape |-> "Id", ids |-> <<id>>]
PgName_IdPair(schema, table) == [shape |-> "IdPair", ids |-> <<schema, table>>]
PgName_Namespaced(ids) == [shape |-> "Namespaced", ids |-> ids]

\* what one call did: its return value, the strings it handed to
\* PgIdent::new in call order, and how many components it read from its input
Done(r, log, n) == [ret |-> r, calls |-> log, taken |-> n]

PgName_new(id) ==
    LET r == PgIdent_new(id) IN
    Done(IF r.tag = "Err" THEN r ELSE Ok(PgName_Id(r.val)), <<id>>, 1)

\* variant: every component is validated before the first error is returned
RECURSIVE ns_loop_all(_, _, _)
ns_loop_all(ns, ids, log) ==
    LET i == Len(log) + 1 IN
    IF i > Len(ns)
    THEN Done(IF Len(ids) < Len(ns) THEN Err(NullByteError) ELSE Ok(ids), log, Len(ns))
    ELSE LET r == PgIdent_new(ns[i]) IN
         ns_loop_all(ns, IF r.tag = "Err" THEN ids ELSE Append(ids, r.val), Append(log, ns[i]))

\* for id in ns { ids.push(PgIdent::new(id)?); }
RECURSIVE ns_loop(_, _, _)
ns_loop(ns, ids, log) ==
    LET i == Len(log) + 1 IN
    IF i > Len(ns)
    THEN Done(Ok(ids), log, Len(ns))
    ELSE LET r == PgIdent_new(ns[i]) IN
         IF r.tag = "Err"
         THEN Done(r, Append(log, ns[i]), i)
         ELSE ns_loop(ns, Append(ids, r.val), Append(log, ns[i]))

\* variant: two identifiers are left in the Vec instead of becoming an IdPair
PgName_new_ns_no_pair(ns) ==
    LET l == ns_loop(ns, <<>>, <<>>) IN
    IF l.ret.tag = "Err"
    THEN l
    ELSE LET ids == l.ret.val IN
         IF Len(ids) = 1
         THEN Done(Ok(PgName_Id(ids[Len(ids)])), l.calls, l.taken)
         ELSE Done(Ok(PgName_Namespaced(ids)), l.calls, l.taken)

PgName_new_ns(ns) ==
    LET l == ns_loop(ns, <<>>, <<>>) IN
    IF l.ret.tag = "Err"
    THEN l
    ELSE LET ids == l.ret.val IN
         IF Len(ids) = 1
         THEN Done(Ok(PgName_Id(ids[Len(ids)])), l.calls, l.taken)
         ELSE IF Len(ids) = 2
              THEN Done(Ok(PgName_IdPair(Head(ids), Head(Tail(ids)))), l.calls, l.taken)
              ELSE Done(Ok(PgName_Namespaced(ids)), l.calls, l.taken)

\* TryFrom<(&str, &str)> and TryFrom<(String, String)>
try_from_pair(a, b) ==
    LET schema == PgIdent_new(a) IN
    IF schema.tag = "Err"
    THEN Done(schema, <<a>>, 1)
    ELSE LET table == PgIdent_new(b) IN
         IF table.tag = "Err"
         THEN Done(table, <<a, b>>, 2)
         ELSE Done(Ok(PgName_IdPair(schema.val, table.val)), <<a, b>>, 2)

\* PgName::name; ids.last().unwrap() panics on an empty Vec
name(self) ==
    IF self.shape = "Id" THEN Ok(self.ids[1])
    ELSE IF self.shape = "IdPair" THEN Ok(self.ids[2])
    ELSE IF Len(self.ids) = 0 THEN Panic
         ELSE Ok(self.ids[Len(self.ids)])

\* PgName::with_name; ids[..ids.len()-1] panics on an empty Vec
with_name(self, name_part) ==
    LET np == PgIdent_new(name_part) IN
    IF np.tag = "Err" THEN np
    ELSE IF self.shape = "Id" THEN Ok(PgName_Id(np.val))
    ELSE IF self.shape = "IdPair" THEN Ok(PgName_IdPair(self.ids[1], np.val))
    ELSE IF Len(self.ids) = 0 THEN Panic
         ELSE Ok(PgName_Namespaced(Append(SubSeq(self.ids, 1, Len(self.ids) - 1), np.val)))

\* variant: the dot is written before every component, the first included
RECURSIVE fmt_loop_no_first(_, _, _)
fmt_loop_no_first(ids, first, f) ==
    IF ids = <<>>
    THEN f
    ELSE fmt_loop_no_first(Tail(ids), FALSE, f \o <<Dot>> \o fmt_PgIdent(Head(ids)))

\* the Namespaced arm of Display: f is the text written so far
RECURSIVE fmt_loop(_, _, _)
fmt_loop(ids, first, f) ==
    IF ids = <<>>
    THEN f
    ELSE fmt_loop(Tail(ids), FALSE,
                  (IF ~first THEN f \o <<Dot>> ELSE f) \o fmt_PgIdent(Head(ids)))

\* Display for PgName
fmt_PgName(self) ==
    IF self.shape = "Id" THEN fmt_PgIdent(self.ids[1])
    ELSE IF self.shape = "IdPair"
         THEN fmt_PgIdent(self.ids[1]) \o <<Dot>> \o fmt_PgIdent(self.ids[2])
         ELSE fmt_loop(self.ids, TRUE, <<>>)

\* ------------------------------------------------------------------ inputs
Rep(c, n) == [i \in 1..n |-> c]

ShortStrings == UNION {[1..n -> Alphabet] : n \in 0..MaxLen}

\* strings around the byte limit, of one-byte and of two-byte characters
LongStrings ==
    {Rep(LowerA, n) : n \in {MaxIdentBytes, MaxIdentBytes + 1}}
    \cup {Rep(LowerEAcute, n) : n \in {MaxIdentBytes \div 2, (MaxIdentBytes + 1) \div 2}}
    \cup {Append(Rep(LowerA, MaxIdentBytes), c) : c \in {NUL, DQuote}}

Strings == ShortStrings \cup LongStrings

\* the component strings of the multi-component constructors
NameStrings ==
    {<<LowerA>>, <<UpperA>>, <<LowerA, Dot, LowerA>>, <<DQuote>>, <<NUL>>, <<>>}

Paths == UNION {[1..n -> NameStrings] : n \in 0..MaxParts}

\* ------------------------------------------------------------------- state
NoName == [shape |-> "None", ids |-> <<>>]
NoText == [set |-> FALSE, text |-> <<>>]
Text(t) == [set |-> TRUE, text |-> t]

IdentCtors == {"PgIdent::new", "PgIdent::try_from"}
SingleCtors == {"PgName::new", "PgName::try_from_str"}
PathCtors == {"PgName::new_ns", "PgName::try_from_vec"}
PairCtors == {"PgName::try_from_pair"}
NameOps == SingleCtors \cup PathCtors \cup PairCtors \cup {"with_name"}
IdentOps == IdentCtors \cup {"name"}

Init ==
    /\ op = "none"
    /\ arg = <<>>
    /\ recv = NoName
    /\ ret = [tag |-> "None", val |-> "none"]
    /\ out = NoText
    /\ calls = <<>>
    /\ taken = 0

\* the caller holds a Name: the last call returned Ok with one
HoldsName == op \in NameOps /\ ret.tag = "Ok"
\* the caller holds an identifier
HoldsIdent == op \in IdentOps /\ ret.tag = "Ok"

\* The calls share no state, so a behaviour follows one value: a constructor
\* builds it from the initial state, then the caller uses what it holds.

\* PgIdent::new(id)
PgIdentNew ==
    /\ op = "none"
    /\ \E s \in Strings :
        /\ op' = "PgIdent::new"
        /\ arg' = <<s>>
        /\ ret' = PgIdent_new(s)
        /\ calls' = <<s>>
    /\ taken' = 1
    /\ recv' = NoName
    /\ out' = NoText

\* TryFrom<&str> for PgIdent<String>: PgIdent::new(value.to_string())
PgIdentTryFrom ==
    /\ op = "none"
    /\ \E s \in Strings :
        /\ op' = "PgIdent::try_from"
        /\ arg' = <<s>>
        /\ ret' = PgIdent_new(s)
        /\ calls' = <<s>>
    /\ taken' = 1
    /\ recv' = NoName
    /\ out' = NoText

\* PgName::new(id)
PgNameNew ==
    /\ op = "none"
    /\ \E s \in NameStrings :
        LET d == PgName_new(s) IN
        /\ op' = "PgName::new"
        /\ arg' = <<s>>
        /\ ret' = d.ret
        /\ calls' = d.calls
        /\ taken' = d.taken
    /\ recv' = NoName
    /\ out' = NoText

\* TryFrom<&str> for PgName<String>: PgName::new(value.to_string())
PgNameTryFromStr ==
    /\ op = "none"
    /\ \E s \in NameStrings :
        LET d == PgName_new(s) IN
        /\ op' = "PgName::try_from_str"
        /\ arg' = <<s>>
        /\ ret' = d.ret
        /\ calls' = d.calls
        /\ taken' = d.taken
    /\ recv' = NoName
    /\ out' = NoText

\* PgName::new_ns(ns)
PgNameNewNs ==
    /\ op = "none"
    /\ \E ns \in Paths :
        LET d == PgName_new_ns(ns) IN
        /\ op' = "PgName::new_ns"
        /\ arg' = ns
        /\ ret' = d.ret
        /\ calls' = d.calls
        /\ taken' = d.taken
    /\ recv' = NoName
    /\ out' = NoText

\* TryFrom<Vec<&str>> and TryFrom<Vec<String>> for PgName<String>
PgNameTryFromVec ==
    /\ op = "none"
    /\ \E ns \in Paths :
        LET d == PgName_new_ns(ns) IN
        /\ op' = "PgName::try_from_vec"
        /\ arg' = ns
        /\ ret' = d.ret
        /\ calls' = d.calls
        /\ taken' = d.taken
    /\ recv' = NoName
    /\ out' = NoText

\* TryFrom<(&str, &str)> and TryFrom<(String, String)> for PgName<String>
PgNameTryFromPair ==
    /\ op = "none"
    /\ \E a \in NameStrings, b \in NameStrings :
        LET d == try_from_pair(a, b) IN
        /\ op' = "PgName::try_from_pair"
        /\ arg' = <<a, b>>
        /\ ret' = d.ret
        /\ calls' = d.calls
        /\ taken' = d.taken
    /\ recv' = NoName
    /\ out' = NoText

\* n.name() on the Name the caller holds
Name ==
    /\ HoldsName
    /\ op' = "name"
    /\ arg' = <<>>
    /\ recv' = ret.val
    /\ ret' = name(ret.val)
    /\ calls' = <<>>
    /\ taken' = 0
    /\ out' = NoText

\* n.with_name(r) on the Name the caller holds
WithName ==
    /\ HoldsName
    /\ \E r \in NameStrings :
        /\ op' = "with_name"
        /\ arg' = <<r>>
        /\ recv' = ret.val
        /\ ret' = with_name(ret.val, r)
        /\ calls' = <<r>>
        /\ taken' = 1
        /\ out' = NoText

\* format!("{}", id) on the identifier the caller holds
FmtIdent ==
    /\ HoldsIdent
    /\ ~out.set
    /\ out' = Text(fmt_PgIdent(ret.val))
    /\ UNCHANGED <<op, arg, recv, ret, calls, taken>>

\* format!("{}", n) on the Name the caller holds
FmtName ==
    /\ HoldsName
    /\ ~out.set
    /\ out' = Text(fmt_PgName(ret.val))
    /\ UNCHANGED <<op, arg, recv, ret, calls, taken>>

Next ==
    \/ PgIdentNew
    \/ PgIdentTryFrom
    \/ PgNameNew
    \/ PgNameTryFromStr
    \/ PgNameNewNs
    \/ PgNameTryFromVec
    \/ PgNameTryFromPair
    \/ Name
    \/ WithName
    \/ FmtIdent
    \/ FmtName

Spec == Init /\ [][Next]_vars

\* ------------------------------------------------------- vocabulary of claims
\* the string the call was given (single-string constructors)
Raw == arg[1]

NulFree(ns) == \A i \in 1..Len(ns) : ~contains_nul(ns[i])

\* index of the first component that contains NUL (0 when there is none)
FirstNul(ns) ==
    IF NulFree(ns) THEN 0
    ELSE CHOOSE k \in 1..Len(ns) :
            contains_nul(ns[k]) /\ \A j \in 1..(k - 1) : ~contains_nul(ns[j])

\* the bare form as the documentation states it: lower-case letter or
\* underscore first, then lower-case letters, digits 0-9, underscore, dollar
DocBare(s) ==
    /\ Len(s) > 0
    /\ len(s) <= MaxIdentBytes
    /\ (is_lowercase(s[1]) \/ s[1] = Underscore)
    /\ \A i \in 2..Len(s) :
        is_lowercase(s[i]) \/ is_decimal_digit(s[i]) \/ s[i] = Underscore \/ s[i] = Dollar

\* s with every double-quote written twice
RECURSIVE Doubled(_)
Doubled(s) ==
    IF s = <<>> THEN <<>>
    ELSE Doubled(SubSeq(s, 1, Len(s) - 1))
         \o (IF s[Len(s)] = DQuote THEN <<DQuote, DQuote>> ELSE <<s[Len(s)]>>)

\* the content of a quoted token: each pair of double-quotes is one
\* double-quote; a double-quote without its pair would end the token
RECURSIVE Collapse(_)
Collapse(s) ==
    IF s = <<>> THEN <<>>
    ELSE IF Head(s) # DQuote THEN <<Head(s)>> \o Collapse(Tail(s))
    ELSE IF Len(s) >= 2 /\ s[2] = DQuote THEN <<DQuote>> \o Collapse(Tail(Tail(s)))
    ELSE <<"token ends">>

\* a rendering read back as one identifier token
ReadBack(text) ==
    IF text # <<>> /\ text[1] = DQuote
    THEN IF Len(text) >= 2 /\ text[Len(text)] = DQuote
         THEN Collapse(SubSeq(text, 2, Len(text) - 1))
         ELSE <<"token open">>
    ELSE text

\* every maximal run of double-quotes in s has even length (run: the
\* length of the run that ends just before s)
RECURSIVE RunsEven(_, _)
RunsEven(s, run) ==
    IF s = <<>> THEN run % 2 = 0
    ELSE IF Head(s) = DQuote THEN RunsEven(Tail(s), run + 1)
    ELSE run % 2 = 0 /\ RunsEven(Tail(s), 0)

\* the dots of a rendering that lie outside quoted tokens (inq: the scan
\* is inside a quoted token)
RECURSIVE SeparatorDots(_, _)
SeparatorDots(text, inq) ==
    IF text = <<>> THEN 0
    ELSE IF Head(text) = DQuote THEN SeparatorDots(Tail(text), ~inq)
    ELSE (IF Head(text) = Dot /\ ~inq THEN 1 ELSE 0) + SeparatorDots(Tail(text), inq)

\* render(c1) + "." + ... + "." + render(cN), N >= 1
RECURSIVE JoinDots(_)
JoinDots(ids) ==
    IF Len(ids) = 1 THEN fmt_PgIdent(ids[1])
    ELSE JoinDots(SubSeq(ids, 1, Len(ids) - 1)) \o <<Dot>> \o fmt_PgIdent(ids[Len(ids)])

\* longest probe string compared against in the injectivity check
ProbeLen == 2

Probes == {t \in UNION {[1..n -> Alphabet] : n \in 0..ProbeLen} : ~contains_nul(t)}

\* ------------------------------------------------------------------- claims

\* C1: new_ns, and the TryFrom<Vec<..>> conversions, called with an empty
\* sequence return Err(ZeroLengthError) without validating any identifier.
C1_EmptyPathRejected ==
    (op \in PathCtors /\ arg = <<>>)
        => (ret.tag = "Err" /\ ret.val = ZeroLengthError /\ calls = <<>>)

\* C2: PgIdent::new(s) returns the bare variant holding s unchanged, rendered
\* as s, exactly when s is non-empty, at most 63 bytes, starts with a
\* lower-case letter or underscore and continues with lower-case letters,
\* decimal digits, underscores or dollar signs.
C2_BareExactlyWhenDocBare ==
    op \in IdentCtors
        => ((ret.tag = "Ok" /\ ret.val = PgIdent_Id(Raw) /\ fmt_PgIdent(ret.val) = Raw)
                <=> DocBare(Raw))

\* C3: for a NUL-free s that does not qualify as bare, PgIdent::new(s) is the
\* Quoted variant and renders as a double-quote, s with every double-quote
\* doubled, and a double-quote.
C3_QuotedRendering ==
    (op \in IdentCtors /\ ~contains_nul(Raw) /\ ~DocBare(Raw))
        => /\ ret.tag = "Ok"
           /\ ret.val.tag = "Quoted"
           /\ fmt_PgIdent(ret.val) = <<DQuote>> \o Doubled(Raw) \o <<DQuote>>

\* C4: PgIdent::new(s) returns Err(NullByteError) if and only if s contains
\* NUL; every NUL-free input yields Ok, and no accepted identifier comes
\* from a string containing NUL.
C4_ErrIffNul ==
    op \in IdentCtors
        => /\ (ret.tag = "Err" /\ ret.val = NullByteError) <=> contains_nul(Raw)
           /\ ret.tag = "Ok" <=> ~contains_nul(Raw)

C4_Witness ==
    /\ op \in IdentCtors
    /\ Len(Raw) >= 2
    /\ is_lowercase(Raw[1])
    /\ contains_nul(Raw)
    /\ ret.tag = "Err"

\* C5: for n NUL-free strings new_ns returns Id for n = 1, IdPair for n = 2,
\* Namespaced with all n identifiers in input order for n >= 3, never a
\* Namespaced of length 1 or 2; the 1-element result equals PgName::new on
\* the element and the 2-element result equals the pair construction, in
\* shape, rendering and leaf.
C5_ShapeByCount ==
    (op \in PathCtors /\ NulFree(arg) /\ Len(arg) >= 1)
        => /\ ret.tag = "Ok"
           /\ Len(ret.val.ids) = Len(arg)
           /\ \A i \in 1..Len(arg) : Ok(ret.val.ids[i]) = PgIdent_new(arg[i])
           /\ ret.val.shape = "Namespaced" => Len(ret.val.ids) \notin {1, 2}
           /\ Len(arg) >= 3 => ret.val.shape = "Namespaced"
           /\ Len(arg) = 1 =>
                LET single == PgName_new(arg[1]).ret IN
                /\ ret.val.shape = "Id"
                /\ ret = single
                /\ fmt_PgName(ret.val) = fmt_PgName(single.val)
                /\ name(ret.val) = name(single.val)
           /\ Len(arg) = 2 =>
                LET pair == try_from_pair(arg[1], arg[2]).ret IN
                /\ ret.val.shape = "IdPair"
                /\ ret = pair
                /\ fmt_PgName(ret.val) = fmt_PgName(pair.val)
                /\ name(ret.val) = name(pair.val)

C5_Witness ==
    /\ op \in PathCtors
    /\ Len(arg) = 2
    /\ arg[1] # arg[2]
    /\ ret.tag = "Ok"
    /\ ret.val.shape = "IdPair"

\* C6: for a Name n returned by any constructor, n.with_name(r) is an error
\* exactly when r contains NUL; otherwise it is a Name of n's shape and
\* component count, with n's non-leaf components in order and the leaf
\* PgIdent::new(r).
C6_WithNamePreservesPrefix ==
    op = "with_name"
        => /\ ret.tag = "Err" <=> contains_nul(Raw)
           /\ ~contains_nul(Raw) =>
                /\ ret.tag = "Ok"
                /\ ret.val.shape = recv.shape
                /\ Len(ret.val.ids) = Len(recv.ids)
                /\ \A i \in 1..(Len(recv.ids) - 1) : ret.val.ids[i] = recv.ids[i]
                /\ Ok(ret.val.ids[Len(ret.val.ids)]) = PgIdent_new(Raw)

\* C7: for a Name returned by any constructor, name() does not panic and
\* returns the rightmost identifier.
C7_NameReturnsLeaf ==
    op = "name"
        => /\ ret.tag = "Ok"
           /\ Len(recv.ids) >= 1
           /\ ret.val = recv.ids[Len(recv.ids)]

\* C8: the pair construction and new_ns validate left to right and stop at
\* the first failing component: the result is that component's error,
\* nothing after it is validated or read, and no Name is returned; without
\* a failure every component is validated exactly once in input order.
C8_ShortCircuit ==
    op \in PathCtors \cup PairCtors
        => LET k == FirstNul(arg) IN
           IF k = 0
           THEN ret.tag = "Ok" /\ calls = arg /\ taken = Len(arg)
           ELSE /\ ret = PgIdent_new(arg[k])
                /\ ret.tag = "Err"
                /\ calls = SubSeq(arg, 1, k)
                /\ taken = k

C8_Witness ==
    /\ op \in PathCtors
    /\ FirstNul(arg) > 1
    /\ FirstNul(arg) < Len(arg)
    /\ ret.tag = "Err"

\* C9: a Name of N >= 1 components renders as its components' renderings in
\* stored order joined by single dots, with no leading or trailing dot; a
\* dot inside an input string is no separator: that component is quoted and
\* the component count is the input's.
C9_DotJoined ==
    (HoldsName /\ out.set /\ Len(ret.val.ids) >= 1)
        => LET ids == ret.val.ids IN
           /\ out.text = JoinDots(ids)
           /\ SeparatorDots(out.text, FALSE) = Len(ids) - 1
           /\ out.text[1] # Dot
           /\ out.text[Len(out.text)] # Dot
           /\ op # "with_name" =>
                /\ Len(ids) = Len(arg)
                /\ \A i \in 1..Len(arg) :
                    (\E j \in 1..Len(arg[i]) : arg[i][j] = Dot) => ids[i].tag = "Quoted"

C9_Witness ==
    /\ op \in PathCtors
    /\ ret.tag = "Ok"
    /\ out.set
    /\ Len(arg) >= 3
    /\ \E j \in 1..Len(arg[2]) : arg[2][j] = Dot

\* every probe string with its rendering
Rendered == {<<t, fmt_PgIdent(PgIdent_new(t).val)>> : t \in Probes}

\* C10: for a NUL-free s the rendering of PgIdent::new(s), read back as one
\* identifier token, is s; inside the delimiters of a quoted rendering every
\* run of double-quotes has even length; no other input has the same
\* rendering.
C10_RoundTrip ==
    (op \in IdentCtors /\ ret.tag = "Ok" /\ out.set)
        => /\ ReadBack(out.text) = Raw
           /\ ret.val.tag = "Quoted" =>
                /\ Len(out.text) >= 2
                /\ out.text[1] = DQuote
                /\ out.text[Len(out.text)] = DQuote
                /\ RunsEven(SubSeq(out.text, 2, Len(out.text) - 1), 0)
           /\ \A p \in Rendered : p[1] # Raw => p[2] # out.text

C10_Witness ==
    /\ op \in IdentCtors
    /\ ret.tag = "Ok"
    /\ out.set
    /\ Len(Raw) = 3
    /\ Raw[1] = DQuote
    /\ Raw[3] = DQuote

====
